---- MODULE Spec2Model ----
(***************************************************************************)
(* Model of spixels-pixel-push.cc: the SpixelsDevice adapter (constructor, *)
(* destructor, num_strips, num_pixel_per_strip, SetPixel, FlushFrame) and  *)
(* main (getopt loop, validation, construction, server start, idle loop).  *)
(* The LED strip drivers, the MultiSPI bus and the PixelPusher server are  *)
(* libraries outside this file; they are modelled at their interface.      *)
(***************************************************************************)
EXTENDS Integers, Sequences, FiniteSets, TLC

(***************************************************************************)
(* Bounds of the model.                                                    *)
(***************************************************************************)
\* FlushFrame is explored up to this many SendBuffers commits per run.
MaxCommits == 2

(***************************************************************************)
(* C library functions used by main, on strings as sequences of characters *)
(***************************************************************************)
Digits == <<"0", "1", "2", "3", "4", "5", "6", "7", "8", "9">>
Upper == <<"A", "B", "C", "D", "E", "F", "G", "H", "I", "J", "K", "L", "M",
           "N", "O", "P", "Q", "R", "S", "T", "U", "V", "W", "X", "Y", "Z">>
Lower == <<"a", "b", "c", "d", "e", "f", "g", "h", "i", "j", "k", "l", "m",
           "n", "o", "p", "q", "r", "s", "t", "u", "v", "w", "x", "y", "z">>

IsDigit(c) == \E k \in DOMAIN Digits : Digits[k] = c
DigitVal(c) == (CHOOSE k \in DOMAIN Digits : Digits[k] = c) - 1

ToLower(c) ==
  IF \E k \in DOMAIN Upper : Upper[k] = c
  THEN Lower[CHOOSE k \in DOMAIN Upper : Upper[k] = c]
  ELSE c

\* strcasecmp(a, b) == 0
StrCaseEq(a, b) ==
  /\ Len(a) = Len(b)
  /\ \A k \in DOMAIN a : ToLower(a[k]) = ToLower(b[k])

\* The decimal digits of s from position i on, accumulated as atoi and %d do.
RECURSIVE ScanDigits(_, _, _)
ScanDigits(s, i, acc) ==
  IF i > Len(s) \/ ~IsDigit(s[i])
  THEN [val |-> acc, next |-> i]
  ELSE ScanDigits(s, i + 1, acc * 10 + DigitVal(s[i]))

\* One %d conversion at position i: optional sign, then at least one digit.
ScanInt(s, i) ==
  LET signed == i <= Len(s) /\ s[i] \in {"-", "+"}
      first == IF signed THEN i + 1 ELSE i
      d == ScanDigits(s, first, 0)
  IN  [ok |-> d.next > first,
       val |-> IF signed /\ s[i] = "-" THEN 0 - d.val ELSE d.val,
       next |-> d.next]

\* atoi(s): the leading integer of s, 0 when there is none.
Atoi(s) == LET r == ScanInt(s, 1) IN IF r.ok THEN r.val ELSE 0

\* sscanf(s, "%d,%d", &a, &b): the number of conversions and the values
\* assigned; a variable that is not converted keeps its old value.
Sscanf2(s, olda, oldb) ==
  LET r1 == ScanInt(s, 1)
  IN  IF ~r1.ok THEN [n |-> 0, a |-> olda, b |-> oldb]
      ELSE IF r1.next > Len(s) \/ s[r1.next] # ","
           THEN [n |-> 1, a |-> r1.val, b |-> oldb]
           ELSE LET r2 == ScanInt(s, r1.next + 1)
                IN  IF r2.ok THEN [n |-> 2, a |-> r1.val, b |-> r2.val]
                    ELSE [n |-> 1, a |-> r1.val, b |-> oldb]

(***************************************************************************)
(* parseType                                                               *)
(***************************************************************************)
APA102 == <<"A", "P", "A", "1", "0", "2">>
WS2801 == <<"W", "S", "2", "8", "0", "1">>
LPD6803 == <<"L", "P", "D", "6", "8", "0", "3">>
LPD8806 == <<"L", "P", "D", "8", "8", "0", "6">>

parseType(type) ==
  IF StrCaseEq(type, APA102) THEN "CreateAPA102Strip"
  ELSE IF StrCaseEq(type, WS2801) THEN "CreateWS2801Strip"
  ELSE IF StrCaseEq(type, LPD6803) THEN "CreateLPD6803Strip"
  ELSE IF StrCaseEq(type, LPD8806) THEN "CreateLPD8806Strip"
  ELSE "NULL"

(***************************************************************************)
(* Inputs: the command line (argv, one record per option) and the uid.     *)
(***************************************************************************)
Opt(o, arg) == [opt |-> o, optarg |-> arg]

\* Arguments of -S and -L.
StripCountArgs == {<<"-", "1">>, <<"0">>, <<"1">>, <<"2">>}
StripLenArgs == {<<"1">>, <<"2">>}
Geometry(n, l) == <<Opt("S", n), Opt("L", l)>>

\* One further option, each with valid and invalid arguments; "x" is an
\* option letter that is not in the getopt string.
ExtraOptions ==
  {Opt("T", t) : t \in {<<"a", "p", "a", "1", "0", "2">>, WS2801,
                        <<"l", "p", "d", "6", "8", "0", "3">>, LPD8806,
                        <<"W", "S", "2", "8", "1", "2">>}}
  \cup {Opt("c", c) : c \in {<<"0">>, <<"1">>, <<"1", "5">>, <<"1", "6">>,
                             <<"f", "a", "s", "t">>}}
  \cup {Opt("a", a) : a \in {<<"0", ",", "1">>, <<"5">>, <<",", "1">>}}
  \cup {Opt("i", <<"w", "l", "a", "n", "0">>), Opt("u", <<"1", "4", "6", "0">>),
        Opt("G", <<"1">>), Opt("C", <<"2">>), Opt("x", <<>>)}

\* Command lines run as root.  The default geometry (16 strips of 144
\* pixels) is run as an unprivileged user only, so that the frames the
\* server can write stay enumerable.
RootLines ==
  {Geometry(n, l) : n \in StripCountArgs, l \in StripLenArgs}
  \cup {<<e>> \o Geometry(<<"1">>, <<"1">>) : e \in ExtraOptions}
  \cup {Geometry(<<"1">>, <<"1">>) \o <<e>> :
          e \in {Opt("a", <<"5">>), Opt("x", <<>>), Opt("c", <<"1", "6">>)}}
UserLines ==
  {<<>>, Geometry(<<"2">>, <<"2">>),
   <<Opt("T", <<"x">>), Opt("c", <<"0">>)>>, <<Opt("c", <<"1", "6">>)>>}

RootUid == 0
Runs == {[argv |-> a, uid |-> RootUid] : a \in RootLines}
        \cup {[argv |-> a, uid |-> 1000] : a \in UserLines}

\* Arguments the server passes to SetPixel.
CallStrips == {-1, 0, 1, 2}
CallPixels == {-1, 0, 1, 2}
Colors == {[red |-> 0, green |-> 0, blue |-> 0],
           [red |-> 1, green |-> 2, blue |-> 3]}

(***************************************************************************)
(* State                                                                   *)
(***************************************************************************)
VARIABLES
  argv, uid,          \* inputs of the process
  pc,                 \* position of main
  optind,             \* getopt: index of the next option of argv
  strip_creator, SPI_clock_mhz, num_strips, strip_len, pp_options,
  num_strips_, strip_len_, strips_, strips_array, spi_, i,
  bus_created,        \* number of CreateDirectMultiSPI calls
  bus_mhz,            \* clock rate the bus was created with
  commits,            \* number of SendBuffers transactions
  hw,                 \* physical output, per connector
  server,             \* "stopped" | "running"
  lastCall,           \* the last call the server made on the device
  ub,                 \* strips_ was indexed outside the array
  terminated,         \* "no" | "exit" | "abort"
  exit_status,
  exit_reason         \* the fatal condition detected, "none" if none

mainVars == <<optind, strip_creator, SPI_clock_mhz, num_strips, strip_len,
              pp_options>>
devVars == <<num_strips_, strip_len_, strips_, strips_array, spi_, i>>
busVars == <<bus_created, bus_mhz, commits, hw>>
endVars == <<terminated, exit_status, exit_reason>>
vars == <<argv, uid, pc, mainVars, devVars, busVars, server, lastCall, ub,
          endVars>>

Black == <<0, 0, 0>>
NoStrip == [state |-> "uninit", type |-> "NULL", connector |-> 0, count |-> 0,
            spi |-> 0, buf |-> [p \in {} |-> Black], deletes |-> 0]
NoCall == [op |-> "none", strip |-> 0, pixel |-> 0,
           col |-> [red |-> 0, green |-> 0, blue |-> 0], ret |-> 0]

DefaultNumStrips == 16
DefaultStripLen == 144
DefaultClockMhz == 4

\* pp::PPOptions(): the defaults of the fields main does not set.
PPOptionsCtor ==
  [artnet_universe |-> 0, artnet_channel |-> 0, network_interface |-> <<>>,
   udp_packet_size |-> 1460, group |-> 0, controller |-> 0]

Init ==
  /\ \E r \in Runs : argv = r.argv /\ uid = r.uid
  /\ pc = "getopt"
  /\ optind = 1
  /\ pp_options = [PPOptionsCtor EXCEPT !.artnet_universe = -1,
                                        !.artnet_channel = -1,
                                        !.network_interface = <<"e", "t", "h", "0">>]
  /\ num_strips = DefaultNumStrips
  /\ strip_len = DefaultStripLen
  /\ SPI_clock_mhz = DefaultClockMhz
  /\ strip_creator = "CreateAPA102Strip"
  /\ num_strips_ = 0 /\ strip_len_ = 0
  /\ strips_ = [k \in {} |-> NoStrip]
  /\ strips_array = "none"
  /\ spi_ = "none"
  /\ i = 0
  /\ bus_created = 0 /\ bus_mhz = 0 /\ commits = 0
  /\ hw = [c \in {} |-> [p \in {} |-> Black]]
  /\ server = "stopped"
  /\ lastCall = NoCall
  /\ ub = FALSE
  /\ terminated = "no" /\ exit_status = 0 /\ exit_reason = "none"

(***************************************************************************)
(* main: the getopt loop                                                   *)
(***************************************************************************)
OptString == {"S", "L", "i", "u", "a", "G", "C", "T", "c"}

\* getopt() has an option left and returns its letter, '?' for a letter that
\* is not in the option string.
Getopt(o) ==
  /\ pc = "getopt"
  /\ optind <= Len(argv)
  /\ (IF argv[optind].opt \in OptString THEN argv[optind].opt ELSE "?") = o

optarg == argv[optind].optarg

\* return 1 from main before pixel_strips exists.
Return1(reason) ==
  /\ pc' = "done"
  /\ terminated' = "exit"
  /\ exit_status' = 1
  /\ exit_reason' = reason

NextOpt ==
  /\ optind' = optind + 1
  /\ pc' = "getopt"
  /\ UNCHANGED endVars

Opt_T ==
  /\ Getopt("T")
  /\ strip_creator' = parseType(optarg)
  /\ NextOpt
  /\ UNCHANGED <<argv, uid, SPI_clock_mhz, num_strips, strip_len, pp_options,
                 devVars, busVars, server, lastCall, ub>>

Opt_c ==
  /\ Getopt("c")
  /\ SPI_clock_mhz' = Atoi(optarg)
  /\ NextOpt
  /\ UNCHANGED <<argv, uid, strip_creator, num_strips, strip_len, pp_options,
                 devVars, busVars, server, lastCall, ub>>

Opt_S ==
  /\ Getopt("S")
  /\ num_strips' = Atoi(optarg)
  /\ NextOpt
  /\ UNCHANGED <<argv, uid, strip_creator, SPI_clock_mhz, strip_len, pp_options,
                 devVars, busVars, server, lastCall, ub>>

Opt_L ==
  /\ Getopt("L")
  /\ strip_len' = Atoi(optarg)
  /\ NextOpt
  /\ UNCHANGED <<argv, uid, strip_creator, SPI_clock_mhz, num_strips, pp_options,
                 devVars, busVars, server, lastCall, ub>>

Opt_i ==
  /\ Getopt("i")
  /\ pp_options' = [pp_options EXCEPT !.network_interface = optarg]
  /\ NextOpt
  /\ UNCHANGED <<argv, uid, strip_creator, SPI_clock_mhz, num_strips, strip_len,
                 devVars, busVars, server, lastCall, ub>>

Opt_u ==
  /\ Getopt("u")
  /\ pp_options' = [pp_options EXCEPT !.udp_packet_size = Atoi(optarg)]
  /\ NextOpt
  /\ UNCHANGED <<argv, uid, strip_creator, SPI_clock_mhz, num_strips, strip_len,
                 devVars, busVars, server, lastCall, ub>>

Opt_G ==
  /\ Getopt("G")
  /\ pp_options' = [pp_options EXCEPT !.group = Atoi(optarg)]
  /\ NextOpt
  /\ UNCHANGED <<argv, uid, strip_creator, SPI_clock_mhz, num_strips, strip_len,
                 devVars, busVars, server, lastCall, ub>>

Opt_C ==
  /\ Getopt("C")
  /\ pp_options' = [pp_options EXCEPT !.controller = Atoi(optarg)]
  /\ NextOpt
  /\ UNCHANGED <<argv, uid, strip_creator, SPI_clock_mhz, num_strips, strip_len,
                 devVars, busVars, server, lastCall, ub>>

\* case 'a': sscanf assigns what it converts, then main returns 1 unless
\* both fields were converted.
Opt_a ==
  /\ Getopt("a")
  /\ LET r == Sscanf2(optarg, pp_options.artnet_universe,
                      pp_options.artnet_channel)
     IN  /\ pp_options' = [pp_options EXCEPT !.artnet_universe = r.a,
                                             !.artnet_channel = r.b]
         /\ IF r.n # 2
            THEN Return1("artnet") /\ UNCHANGED optind
            ELSE NextOpt
  /\ UNCHANGED <<argv, uid, strip_creator, SPI_clock_mhz, num_strips, strip_len,
                 devVars, busVars, server, lastCall, ub>>

\* default: return usage(argv[0]);
Opt_default ==
  /\ Getopt("?")
  /\ Return1("usage")
  /\ UNCHANGED <<argv, uid, mainVars, devVars, busVars, server, lastCall, ub>>

\* getopt() returns -1: the loop ends.
OptionsDone ==
  /\ pc = "getopt"
  /\ optind > Len(argv)
  /\ pc' = "check_type"
  /\ UNCHANGED <<argv, uid, mainVars, devVars, busVars, server, lastCall, ub,
                 endVars>>

(***************************************************************************)
(* main: validation                                                        *)
(***************************************************************************)
\* The range check with its upper limit one too high.
ClockOutOfRange_upTo16(mhz) == mhz < 1 \/ mhz > 16

ClockOutOfRange(mhz) == mhz < 1 \/ mhz > 15

CheckType ==
  /\ pc = "check_type"
  /\ IF strip_creator = "NULL"
     THEN Return1("type")
     ELSE pc' = "check_clock" /\ UNCHANGED endVars
  /\ UNCHANGED <<argv, uid, mainVars, devVars, busVars, server, lastCall, ub>>

CheckClock ==
  /\ pc = "check_clock"
  /\ IF ClockOutOfRange(SPI_clock_mhz)
     THEN Return1("clock")
     ELSE pc' = "check_uid" /\ UNCHANGED endVars
  /\ UNCHANGED <<argv, uid, mainVars, devVars, busVars, server, lastCall, ub>>

\* A CheckUid that prints the message and goes on instead of returning.
CheckUid_noReturn ==
  /\ pc = "check_uid"
  /\ pc' = "ctor_init"
  /\ exit_reason' = IF uid # RootUid THEN "uid" ELSE exit_reason
  /\ UNCHANGED <<terminated, exit_status>>
  /\ UNCHANGED <<argv, uid, mainVars, devVars, busVars, server, lastCall, ub>>

CheckUid ==
  /\ pc = "check_uid"
  /\ IF uid # RootUid
     THEN Return1("uid")
     ELSE pc' = "ctor_init" /\ UNCHANGED endVars
  /\ UNCHANGED <<argv, uid, mainVars, devVars, busVars, server, lastCall, ub>>

(***************************************************************************)
(* Strip drivers and the bus (libraries behind led-strip.h, multi-spi.h)   *)
(***************************************************************************)
\* strip_factory(spi, pin of connector, count): a strip with a dark buffer.
NewStrip(factory, spi, connector, count) ==
  [state |-> "alive", type |-> factory, connector |-> connector,
   count |-> count, spi |-> spi,
   buf |-> [p \in 0 .. count - 1 |-> Black], deletes |-> 0]

\* LEDStrip::SetPixel(pixel, red, green, blue) on one strip.
LEDStrip_SetPixel(strip, pixel, red, green, blue) ==
  IF pixel \in 0 .. strip.count - 1
  THEN [strip EXCEPT !.buf[pixel] = <<red, green, blue>>]
  ELSE strip

\* The staged buffer of the strip registered on a connector.
StagedOn(strips, c) ==
  LET k == CHOOSE k \in DOMAIN strips :
             strips[k].state = "alive" /\ strips[k].connector = c
  IN  strips[k].buf

\* MultiSPI::SendBuffers(): one transaction that puts every registered
\* strip's buffer on its connector.
SendBuffers ==
  /\ commits' = commits + 1
  /\ hw' = [c \in DOMAIN hw |-> StagedOn(strips_, c)]
  /\ UNCHANGED <<bus_created, bus_mhz>>

(***************************************************************************)
(* SpixelsDevice::SpixelsDevice                                            *)
(***************************************************************************)
\* Members are initialised in declaration order: num_strips_, strip_len_,
\* strips_ (new LEDStrip*[num_strips_], which throws for a negative length:
\* nothing catches it and the process aborts), then spi_.
CtorInit ==
  /\ pc = "ctor_init"
  /\ num_strips_' = num_strips
  /\ strip_len_' = strip_len
  /\ IF num_strips < 0
     THEN /\ pc' = "done"
          /\ terminated' = "abort"
          /\ exit_reason' = "bad_array_new_length"
          /\ UNCHANGED <<exit_status, strips_, strips_array>>
     ELSE /\ strips_' = [k \in 0 .. num_strips - 1 |-> NoStrip]
          /\ strips_array' = "allocated"
          /\ pc' = "ctor_spi"
          /\ UNCHANGED endVars
  /\ UNCHANGED <<argv, uid, mainVars, spi_, i, busVars, server, lastCall, ub>>

CtorSPI ==
  /\ pc = "ctor_spi"
  /\ spi_' = "alive"
  /\ bus_created' = bus_created + 1
  /\ bus_mhz' = SPI_clock_mhz
  /\ i' = 0
  /\ pc' = "ctor_loop"
  /\ UNCHANGED <<argv, uid, mainVars, num_strips_, strip_len_, strips_,
                 strips_array, commits, hw, server, lastCall, ub, endVars>>

\* The connector numbered from 0, as the array index is.
ConnectorOfIndex_zeroBased(k) == k

\* The connector whose pin the strip at index k is given.
ConnectorOfIndex(k) == k + 1

\* One iteration of the constructor's loop.
CtorLoop ==
  /\ pc = "ctor_loop"
  /\ i < num_strips_
  /\ strips_' = [strips_ EXCEPT
                   ![i] = NewStrip(strip_creator, bus_created,
                                   ConnectorOfIndex(i), strip_len_)]
  /\ hw' = [c \in DOMAIN hw \cup {ConnectorOfIndex(i)} |->
              IF c = ConnectorOfIndex(i)
              THEN [p \in 0 .. strip_len_ - 1 |-> Black]
              ELSE hw[c]]
  /\ i' = i + 1
  /\ UNCHANGED <<argv, uid, pc, mainVars, num_strips_, strip_len_,
                 strips_array, spi_, bus_created, bus_mhz, commits, server,
                 lastCall, ub, endVars>>

CtorDone ==
  /\ pc = "ctor_loop"
  /\ ~(i < num_strips_)
  /\ pc' = "start_server"
  /\ UNCHANGED <<argv, uid, mainVars, devVars, busVars, server, lastCall, ub,
                 endVars>>

(***************************************************************************)
(* main: pp::StartPixelPusherServer and the idle loop                      *)
(***************************************************************************)
StartServerOk ==
  /\ pc = "start_server"
  /\ server' = "running"
  /\ pc' = "idle"
  /\ UNCHANGED <<argv, uid, mainVars, devVars, busVars, lastCall, ub, endVars>>

\* StartPixelPusherServer returns false: return 1, which first runs the
\* destructor of pixel_strips.
StartServerFails ==
  /\ pc = "start_server"
  /\ exit_reason' = "server"
  /\ i' = 0
  /\ pc' = "dtor_loop"
  /\ UNCHANGED <<argv, uid, mainVars, num_strips_, strip_len_, strips_,
                 strips_array, spi_, busVars, server, lastCall, ub,
                 terminated, exit_status>>

(***************************************************************************)
(* SpixelsDevice: the calls the running server makes                       *)
(***************************************************************************)
Serving == pc = "idle" /\ server = "running"

\* num_strips() returning the other member.
Call_num_strips_returnsLen ==
  /\ Serving
  /\ lastCall' = [NoCall EXCEPT !.op = "num_strips", !.ret = strip_len_]
  /\ UNCHANGED <<argv, uid, pc, mainVars, devVars, busVars, server, ub, endVars>>

Call_num_strips ==
  /\ Serving
  /\ lastCall' = [NoCall EXCEPT !.op = "num_strips", !.ret = num_strips_]
  /\ UNCHANGED <<argv, uid, pc, mainVars, devVars, busVars, server, ub, endVars>>

Call_num_pixel_per_strip ==
  /\ Serving
  /\ lastCall' = [NoCall EXCEPT !.op = "num_pixel_per_strip",
                                !.ret = strip_len_]
  /\ UNCHANGED <<argv, uid, pc, mainVars, devVars, busVars, server, ub, endVars>>

\* The guard with its upper comparison off by one.
StripOutOfRange_offByOne(strip) == strip < 0 \/ strip > num_strips_

\* if (strip < 0 || strip >= num_strips_) return;
StripOutOfRange(strip) == strip < 0 \/ strip >= num_strips_

\* SetPixel passing the colour channels in the order blue, green, red.
SetPixel_swapChannels(strip, pixel, col) ==
  /\ Serving
  /\ lastCall' = [NoCall EXCEPT !.op = "SetPixel", !.strip = strip,
                                !.pixel = pixel, !.col = col]
  /\ IF strip < 0 \/ strip >= num_strips_
     THEN UNCHANGED <<strips_, ub>>
     ELSE /\ strips_' = [strips_ EXCEPT
                           ![strip] = LEDStrip_SetPixel(
                             strips_[strip], pixel,
                             col.blue, col.green, col.red)]
          /\ UNCHANGED ub
  /\ UNCHANGED <<argv, uid, pc, mainVars, num_strips_, strip_len_,
                 strips_array, spi_, i, busVars, server, endVars>>

\* SetPixel indexing strips_ with the pixel and the strip with the strip index.
SetPixel_swapIndices(strip, pixel, col) ==
  /\ Serving
  /\ lastCall' = [NoCall EXCEPT !.op = "SetPixel", !.strip = strip,
                                !.pixel = pixel, !.col = col]
  /\ IF strip < 0 \/ strip >= num_strips_
     THEN UNCHANGED <<strips_, ub>>
     ELSE IF pixel \in DOMAIN strips_
          THEN /\ strips_' = [strips_ EXCEPT
                                ![pixel] = LEDStrip_SetPixel(
                                  strips_[pixel], strip,
                                  col.red, col.green, col.blue)]
               /\ UNCHANGED ub
          ELSE ub' = TRUE /\ UNCHANGED strips_
  /\ UNCHANGED <<argv, uid, pc, mainVars, num_strips_, strip_len_,
                 strips_array, spi_, i, busVars, server, endVars>>

\* SetPixel that also sends the buffers.
SetPixel_committing(strip, pixel, col) ==
  /\ Serving
  /\ lastCall' = [NoCall EXCEPT !.op = "SetPixel", !.strip = strip,
                                !.pixel = pixel, !.col = col]
  /\ IF strip < 0 \/ strip >= num_strips_
     THEN UNCHANGED <<strips_, busVars>>
     ELSE /\ strips_' = [strips_ EXCEPT
                           ![strip] = LEDStrip_SetPixel(
                             strips_[strip], pixel,
                             col.red, col.green, col.blue)]
          /\ commits' = commits + 1
          /\ hw' = [c \in DOMAIN hw |-> StagedOn(strips_', c)]
          /\ UNCHANGED <<bus_created, bus_mhz>>
  /\ UNCHANGED <<argv, uid, pc, mainVars, num_strips_, strip_len_,
                 strips_array, spi_, i, server, ub, endVars>>

SetPixel(strip, pixel, col) ==
  /\ Serving
  /\ lastCall' = [NoCall EXCEPT !.op = "SetPixel", !.strip = strip,
                                !.pixel = pixel, !.col = col]
  /\ IF StripOutOfRange(strip)
     THEN UNCHANGED <<strips_, ub>>
     ELSE IF strip \in DOMAIN strips_
          THEN /\ strips_' = [strips_ EXCEPT
                                ![strip] = LEDStrip_SetPixel(
                                  strips_[strip], pixel,
                                  col.red, col.green, col.blue)]
               /\ UNCHANGED ub
          ELSE ub' = TRUE /\ UNCHANGED strips_
  /\ UNCHANGED <<argv, uid, pc, mainVars, num_strips_, strip_len_,
                 strips_array, spi_, i, busVars, server, endVars>>

FlushFrame ==
  /\ Serving
  /\ commits < MaxCommits
  /\ lastCall' = [NoCall EXCEPT !.op = "FlushFrame"]
  /\ SendBuffers
  /\ UNCHANGED <<argv, uid, pc, mainVars, devVars, server, ub, endVars>>

(***************************************************************************)
(* SpixelsDevice::~SpixelsDevice                                           *)
(***************************************************************************)
\* The destructor's loop stopping one strip early.
DtorLoopCond_skipLast(k) == k < num_strips_ - 1

DtorLoopCond(k) == k < num_strips_

DtorLoop ==
  /\ pc = "dtor_loop"
  /\ DtorLoopCond(i)
  /\ strips_' = [strips_ EXCEPT ![i].state = "deleted",
                                ![i].deletes = @ + 1]
  /\ i' = i + 1
  /\ UNCHANGED <<argv, uid, pc, mainVars, num_strips_, strip_len_,
                 strips_array, spi_, busVars, server, lastCall, ub, endVars>>

DtorArray ==
  /\ pc = "dtor_loop"
  /\ ~DtorLoopCond(i)
  /\ strips_array' = "freed"
  /\ pc' = "dtor_spi"
  /\ UNCHANGED <<argv, uid, mainVars, num_strips_, strip_len_, strips_, spi_, i,
                 busVars, server, lastCall, ub, endVars>>

\* delete spi_; then main's return 1 ends the process.
DtorSPI ==
  /\ pc = "dtor_spi"
  /\ spi_' = "deleted"
  /\ pc' = "done"
  /\ terminated' = "exit"
  /\ exit_status' = 1
  /\ UNCHANGED <<argv, uid, mainVars, num_strips_, strip_len_, strips_,
                 strips_array, i, busVars, server, lastCall, ub, exit_reason>>

(***************************************************************************)
(* The program                                                             *)
(***************************************************************************)
Next ==
  \/ Opt_T \/ Opt_c \/ Opt_S \/ Opt_L \/ Opt_i \/ Opt_u \/ Opt_G \/ Opt_C
  \/ Opt_a \/ Opt_default \/ OptionsDone
  \/ CheckType \/ CheckClock \/ CheckUid
  \/ CtorInit \/ CtorSPI \/ CtorLoop \/ CtorDone
  \/ StartServerOk \/ StartServerFails
  \/ Call_num_strips \/ Call_num_pixel_per_strip
  \/ (\E strip \in CallStrips, pixel \in CallPixels, col \in Colors :
        SetPixel(strip, pixel, col))
  \/ FlushFrame
  \/ DtorLoop \/ DtorArray \/ DtorSPI

Spec == Init /\ [][Next]_vars

(***************************************************************************)
(* Properties                                                              *)
(***************************************************************************)
StripsMade == {k \in DOMAIN strips_ : strips_[k].state # "uninit"}
NothingCreated == bus_created = 0 /\ spi_ = "none" /\ StripsMade = {}
StartupFailures == {"artnet", "usage", "type", "clock", "uid"}
MalformedArtnetArgs == {<<"5">>, <<",", "1">>}
Lit(b) == \E p \in DOMAIN b : b[p] # Black
LastStripInRange ==
  lastCall.op = "SetPixel" /\ lastCall.strip \in 0 .. num_strips_ - 1
ColorOf(col) == <<col.red, col.green, col.blue>>

\* C1: while the server runs, the physical output and the commit count
\* change only in a FlushFrame call, never in a SetPixel call; a FlushFrame
\* call is exactly one commit, after which the output of every strip's
\* connector is that strip's staged buffer (all strips from the same frame).
C1_FlushIsTheOnlyCommit ==
  [][Serving =>
       /\ (hw' # hw \/ commits' # commits) => lastCall'.op = "FlushFrame"
       /\ lastCall'.op = "SetPixel" => hw' = hw /\ commits' = commits
       /\ lastCall'.op = "FlushFrame" =>
            /\ commits' = commits + 1
            /\ strips_' = strips_
            /\ DOMAIN hw' = {strips_[k].connector : k \in DOMAIN strips_}
            /\ \A k \in DOMAIN strips_ :
                 hw'[strips_[k].connector] = strips_[k].buf]_vars

\* C1 witness: one flush has put a frame with writes on two strips on the
\* hardware.
C1_Witness ==
  /\ Serving /\ lastCall.op = "FlushFrame" /\ commits = 1
  /\ num_strips_ = 2
  /\ Lit(hw[1]) /\ Lit(hw[2])
  /\ \A k \in DOMAIN strips_ : hw[k + 1] = strips_[k].buf

\* C2: a SetPixel call whose strip index is below 0 or at least num_strips_
\* changes no staged buffer, no output, no commit count, and neither stops
\* the process nor indexes strips_.
C2_BadStripIsNoOp ==
  [][(/\ Serving
      /\ lastCall'.op = "SetPixel"
      /\ (lastCall'.strip < 0 \/ lastCall'.strip >= num_strips_))
     => /\ UNCHANGED <<devVars, busVars, pc, server, endVars>>
        /\ ub' = FALSE]_vars

\* C2 witness: SetPixel(2, 0, {1,2,3}) was called on a 2-strip adapter that
\* holds a staged pixel.
C2_Witness ==
  /\ Serving /\ num_strips_ = 2
  /\ lastCall.op = "SetPixel" /\ lastCall.strip = 2 /\ lastCall.pixel = 0
  /\ lastCall.col = [red |-> 1, green |-> 2, blue |-> 3]
  /\ Lit(strips_[0].buf)
  /\ ub = FALSE

\* C3: from the end of construction on, num_strips_ and strip_len_ are the
\* N and L the adapter was constructed with, num_strips() and
\* num_pixel_per_strip() return them, and these two calls change nothing.
C3_TopologyConstant ==
  /\ [](pc \in {"start_server", "idle", "dtor_loop", "dtor_spi"} =>
          /\ num_strips_ = num_strips /\ strip_len_ = strip_len
          /\ lastCall.op = "num_strips" => lastCall.ret = num_strips
          /\ lastCall.op = "num_pixel_per_strip" => lastCall.ret = strip_len)
  /\ [][(Serving /\ lastCall'.op \in {"num_strips", "num_pixel_per_strip"})
        => UNCHANGED <<mainVars, devVars, busVars, pc, server, ub, endVars>>]_vars

\* C3 witness: num_strips() answered 2 on a 2 x 1 adapter after a pixel was
\* staged and flushed.
C3_Witness ==
  /\ Serving /\ lastCall.op = "num_strips" /\ lastCall.ret = 2
  /\ num_strips_ = 2 /\ strip_len_ = 1
  /\ commits > 0 /\ Lit(strips_[1].buf)

\* C4: a SetPixel call with 0 <= strip < num_strips_ and 0 <= pixel <
\* strip_len_ makes that pixel's staged value the given (red, green, blue)
\* and leaves every other staged pixel of every strip as it was.
C4_SetPixelWritesOnePixel ==
  [][(/\ Serving
      /\ lastCall'.op = "SetPixel"
      /\ lastCall'.strip \in 0 .. num_strips_ - 1
      /\ lastCall'.pixel \in 0 .. strip_len_ - 1)
     => /\ DOMAIN strips_' = DOMAIN strips_
        /\ \A k \in DOMAIN strips_ :
             /\ DOMAIN strips_'[k].buf = DOMAIN strips_[k].buf
             /\ \A p \in DOMAIN strips_[k].buf :
                  strips_'[k].buf[p] =
                    IF k = lastCall'.strip /\ p = lastCall'.pixel
                    THEN ColorOf(lastCall'.col)
                    ELSE strips_[k].buf[p]]_vars

\* C4 witness: on a 2 x 2 adapter pixel 1 of strip 1 was just set while
\* pixel 0 of strip 0 keeps an earlier colour and the other two are dark.
C4_Witness ==
  /\ Serving /\ num_strips_ = 2 /\ strip_len_ = 2
  /\ lastCall.op = "SetPixel" /\ lastCall.strip = 1 /\ lastCall.pixel = 1
  /\ strips_[1].buf[1] = <<1, 2, 3>> /\ ColorOf(lastCall.col) = <<1, 2, 3>>
  /\ strips_[0].buf[0] = <<1, 2, 3>>
  /\ strips_[0].buf[1] = Black /\ strips_[1].buf[0] = Black

\* C5: a bus or a strip exists only if the strip type resolved, the clock
\* rate is in 1..15, every -a argument read so far parsed and the uid is
\* root; a run that ends on one of these failures has exit status 1 and
\* created no bus and no strip.
C5_NothingCreatedBeforeValidation ==
  /\ ~NothingCreated =>
       /\ strip_creator # "NULL"
       /\ SPI_clock_mhz \in 1 .. 15
       /\ uid = 0
       /\ \A k \in 1 .. optind - 1 :
            argv[k].opt = "a" => argv[k].optarg \notin MalformedArtnetArgs
       /\ exit_reason \notin StartupFailures
  /\ exit_reason \in StartupFailures =>
       /\ pc = "done" /\ terminated = "exit" /\ exit_status = 1
       /\ NothingCreated /\ strips_array = "none"

\* C5 witness: root ran with -c 16 and the process ended on the clock check
\* with nothing created.
C5_Witness ==
  /\ pc = "done" /\ exit_reason = "clock" /\ exit_status = 1
  /\ SPI_clock_mhz = 16 /\ uid = 0 /\ strip_creator # "NULL"
  /\ NothingCreated

\* C6 as stated: whenever a fatal condition has been detected, server
\* startup failure included, no bus has been created.
C6_AllFatalBeforeBus ==
  exit_reason \in StartupFailures \cup {"server"} => bus_created = 0

\* C6 amended: the option and validation failures are detected with no bus
\* and no strip created; server startup failure is detected with the bus and
\* all N strips created, which are then released before the exit with
\* status 1; after a fatal condition is detected no check runs again.
C6_FatalDetection ==
  /\ [](/\ exit_reason \in StartupFailures => NothingCreated
        /\ exit_reason = "server" =>
             /\ bus_created = 1
             /\ StripsMade = 0 .. num_strips - 1
             /\ pc \in {"dtor_loop", "dtor_spi", "done"}
             /\ pc = "done" =>
                  /\ exit_status = 1 /\ spi_ = "deleted"
                  /\ \A k \in StripsMade : strips_[k].state = "deleted")
  /\ [][exit_reason # "none" =>
          /\ exit_reason' = exit_reason
          /\ pc' \in {"dtor_loop", "dtor_spi", "done"}]_vars

\* C6 witness: the moment StartPixelPusherServer has failed on a 2-strip
\* adapter, before the destructor has released anything.
C6_Witness ==
  /\ exit_reason = "server" /\ pc = "dtor_loop" /\ i = 0
  /\ bus_created = 1 /\ spi_ = "alive" /\ num_strips_ = 2
  /\ \A k \in DOMAIN strips_ : strips_[k].state = "alive"

\* C7: no strip is released twice; when the bus is released every one of the
\* N strips has been released exactly once; and once the bus is released no
\* strip is written or released.
C7_StripsBeforeBus ==
  /\ [](/\ \A k \in DOMAIN strips_ : strips_[k].deletes <= 1
        /\ spi_ = "deleted" =>
             /\ DOMAIN strips_ = 0 .. num_strips - 1
             /\ \A k \in DOMAIN strips_ :
                  strips_[k].state = "deleted" /\ strips_[k].deletes = 1)
  /\ [][(spi_ = "deleted" \/ spi_' = "deleted") => strips_' = strips_]_vars

\* C7 witness: a 2-strip adapter has been torn down.
C7_Witness ==
  /\ pc = "done" /\ spi_ = "deleted" /\ num_strips_ = 2
  /\ \A k \in DOMAIN strips_ : strips_[k].deletes = 1

\* C8 as stated: the process ends only by exit status 1, for an unknown
\* strip type, a clock rate out of range, a malformed -a, an unrecognized
\* option, a non-root uid or a server startup failure.
C8_EveryEndIsExit1 ==
  terminated # "no" =>
    /\ terminated = "exit" /\ exit_status = 1
    /\ exit_reason \in StartupFailures \cup {"server"}

\* C9: a SetPixel call with a valid strip index and a pixel index below 0 or
\* at least strip_len_ changes no staged buffer of any strip, no output and
\* no commit count, and neither stops the process nor indexes strips_
\* outside the array.
C9_BadPixelIsNoOp ==
  [][(/\ Serving
      /\ lastCall'.op = "SetPixel"
      /\ lastCall'.strip \in 0 .. num_strips_ - 1
      /\ lastCall'.pixel \notin 0 .. strip_len_ - 1)
     => /\ UNCHANGED <<devVars, busVars, pc, server, endVars>>
        /\ ub' = FALSE]_vars

\* C9 witness: SetPixel(0, 1, ..) was called on a 2 x 1 adapter whose other
\* strip holds a staged pixel.
C9_Witness ==
  /\ Serving /\ num_strips_ = 2 /\ strip_len_ = 1
  /\ lastCall.op = "SetPixel" /\ lastCall.strip = 0 /\ lastCall.pixel = 1
  /\ ColorOf(lastCall.col) = <<1, 2, 3>>
  /\ strips_[0].buf[0] = Black /\ strips_[1].buf[0] = <<1, 2, 3>>
  /\ ub = FALSE

\* C10: a strip exists only after the one bus; when construction is over
\* there is exactly one bus and every index k of 0..N-1 holds a strip of
\* length L on that bus, made by the chosen factory for connector k+1; the
\* server calls the device only then.
C10_Construction ==
  /\ bus_created <= 1
  /\ StripsMade # {} => bus_created = 1 /\ spi_ # "none"
  /\ (pc \in {"start_server", "idle"} \/ lastCall.op # "none") =>
       /\ bus_created = 1 /\ spi_ = "alive" /\ bus_mhz = SPI_clock_mhz
       /\ DOMAIN strips_ = 0 .. num_strips - 1
       /\ \A k \in DOMAIN strips_ :
            /\ strips_[k].state = "alive"
            /\ strips_[k].connector = k + 1
            /\ strips_[k].count = strip_len
            /\ strips_[k].spi = 1
            /\ strips_[k].type = strip_creator
       /\ DOMAIN hw = 1 .. num_strips

\* C10 witness: the server has called SetPixel on a constructed 2 x 2
\* adapter.
C10_Witness ==
  /\ pc = "idle" /\ num_strips_ = 2 /\ strip_len_ = 2
  /\ lastCall.op = "SetPixel"
  /\ strips_[0].connector = 1 /\ strips_[1].connector = 2

====
